---- MODULE Spec2Model ----
(***************************************************************************)
(* Model of src/main.py: the flight table read at import time, the two     *)
(* aggregators performance and delays, and the Dash callback make_graph    *)
(* that the two dropdowns input-type and input-year trigger.               *)
(*                                                                         *)
(* A cell of a table is <<>> when the value is missing (pandas NaN / None) *)
(* and <<v>> when it holds v.  A mean is <<>> (NaN) or <<s, n>>, the       *)
(* rational s / n.  A data frame is a sequence of rows; the result of      *)
(* groupby(...).agg().reset_index() is the set of its rows (the keys are   *)
(* unique, the sorted row order is not modelled).                          *)
(***************************************************************************)
EXTENDS Integers, Sequences, FiniteSets, TLC

\* Largest number of rows of the flight table that is explored.
MaxRows == 2

\* The years tried in the dropdown input-year are the first of years, up to
\* this offset from the first one.
MaxYearOffset == 2

\* pandas NaN, Python None.
None == <<>>

\* src/main.py:20
years == 2005..2020

Columns ==
  {"Year", "Month", "Reporting_Airline", "OriginState", "DestState", "Flights",
   "AirTime", "CancellationCode", "DivAirportLandings", "CarrierDelay",
   "WeatherDelay", "NASDelay", "SecurityDelay", "LateAircraftDelay"}

DelayColumns ==
  <<"CarrierDelay", "WeatherDelay", "NASDelay", "SecurityDelay", "LateAircraftDelay">>

\* The values a parsed CSV field is drawn from; every column can be empty.
ColumnValues ==
  [c \in Columns |->
     CASE c = "Year" -> {<<2005>>, <<2006>>, None}
       [] c = "Month" -> {<<1>>, <<2>>, None}
       [] c = "Reporting_Airline" -> {<<"AA">>, <<"DL">>, None}
       [] c \in {"OriginState", "DestState"} -> {<<"CA">>, <<"TX">>, None}
       [] c = "Flights" -> {<<1>>, <<2>>, None}
       [] c = "AirTime" -> {<<60>>, <<90>>, None}
       [] c = "CancellationCode" -> {<<"A">>, <<"B">>, None}
       [] c = "DivAirportLandings" -> {<<0>>, <<1>>, None}
       [] OTHER -> {<<0>>, <<10>>, None}]

\* An on-time, non-cancelled, non-diverted flight record.
TypicalRow ==
  [c \in Columns |->
     CASE c = "Year" -> <<2005>>
       [] c = "Month" -> <<1>>
       [] c = "Reporting_Airline" -> <<"AA">>
       [] c = "OriginState" -> <<"CA">>
       [] c = "DestState" -> <<"TX">>
       [] c = "Flights" -> <<1>>
       [] c = "AirTime" -> <<60>>
       [] c = "CancellationCode" -> None
       [] c = "DivAirportLandings" -> <<0>>
       [] OTHER -> <<0>>]

\* The rows read_csv can produce here: the typical record with any one field
\* replaced by any other value of its column.
Rows ==
  UNION {{[TypicalRow EXCEPT ![c] = v] : v \in ColumnValues[c]} : c \in Columns}

VARIABLES
  flight_data,   \* the table read at import (line 13)
  input_type,    \* value of the dropdown input-type
  input_year,    \* value of the dropdown input-year
  plot,          \* children of plot1 .. plot5
  result,        \* how the last make_graph call ended
  df,            \* make_graph's local df at its last call
  ran,           \* the aggregator the last call ran
  tables,        \* the five tables that aggregator returned
  children       \* the children of the plots that call was given

vars ==
  <<flight_data, input_type, input_year, plot, result, df, ran, tables, children>>

\* ---------------------------------------------------------------- pandas

Range(s) == {s[i] : i \in DOMAIN s}

RECURSIVE SumSeq(_)
SumSeq(s) == IF s = <<>> THEN 0 ELSE Head(s) + SumSeq(Tail(s))

\* The values of one column that are present, in row order.
NotNa(frame, col) ==
  LET present(r) == r[col] # None
      kept == SelectSeq(frame, present)
  IN [i \in DOMAIN kept |-> kept[i][col][1]]

\* A sum that counts the rows.
Sum_counts_rows(frame, col) == <<Len(frame)>>

\* Series.sum(): missing values are skipped, the empty sum is 0.
Sum(frame, col) == <<SumSeq(NotNa(frame, col))>>

\* A mean that divides by the number of rows, missing ones included.
Mean_over_all_rows(frame, col) ==
  LET vals == NotNa(frame, col)
  IN IF vals = <<>> THEN None ELSE <<SumSeq(vals), Len(frame)>>

\* Series.mean(): missing values are skipped, the mean of nothing is NaN.
Mean(frame, col) ==
  LET vals == NotNa(frame, col)
  IN IF vals = <<>> THEN None ELSE <<SumSeq(vals), Len(vals)>>

\* Groups that keep the rows with a missing key (dropna=False).
GroupKeys_keepna(frame, by) == {[c \in by |-> r[c]] : r \in Range(frame)}

\* The groups of df.groupby(by): one per combination of values of the by
\* columns, rows with a missing value in a by column belong to no group
\* (dropna=True is the default).
GroupKeys(frame, by) ==
  {[c \in by |-> r[c]] : r \in {q \in Range(frame) : \A c \in by : q[c] # None}}

Group(frame, by, key) ==
  LET member(r) == \A c \in by : r[c] = key[c]
  IN SelectSeq(frame, member)

\* df.groupby(by)[col].sum().reset_index()
GroupBySum(frame, by, col) ==
  {key @@ (col :> Sum(Group(frame, by, key), col)) : key \in GroupKeys(frame, by)}

\* df.groupby(by)[col].mean().reset_index()
GroupByMean(frame, by, col) ==
  {key @@ (col :> Mean(Group(frame, by, key), col)) : key \in GroupKeys(frame, by)}

\* ----------------------------------------------------------- aggregators

\* The mask df['DivAirportLandings'] != 0.0: NaN != 0.0 is True.  df[mask] is
\* SelectSeq: the rows satisfying the mask, in their order.
Diverted(r) == r["DivAirportLandings"] # <<0>>

performance(frame) ==
  LET barchart_data == GroupBySum(frame, {"Month", "CancellationCode"}, "Flights")
      linechart_data == GroupByMean(frame, {"Month", "Reporting_Airline"}, "AirTime")
      diversion_data == SelectSeq(frame, Diverted)
      mapchart_data == GroupBySum(frame, {"OriginState"}, "Flights")
      treemap_data == GroupBySum(frame, {"DestState", "Reporting_Airline"}, "Flights")
  IN <<barchart_data, linechart_data, diversion_data, mapchart_data, treemap_data>>

\* delays whose last table is computed after dropping the rows without a
\* LateAircraftDelay.
delays_dropna(frame) ==
  LET late(r) == r["LateAircraftDelay"] # None
  IN [i \in 1..5 |->
        GroupByMean(IF i = 5 THEN SelectSeq(frame, late) ELSE frame,
                    {"Month", "Reporting_Airline"}, DelayColumns[i])]

delays(frame) ==
  [i \in 1..5 |-> GroupByMean(frame, {"Month", "Reporting_Airline"}, DelayColumns[i])]

\* ---------------------------------------------------------------- charts

\* A plotly express figure is kept as its kind, its data and its bindings;
\* dcc.Graph wraps a figure into a component.
Graph(figure) == [type |-> "Graph", figure |-> figure]

px_line(data, y, title) ==
  [kind |-> "line", data |-> data, x |-> "Month", y |-> y,
   color |-> "Reporting_Airline", title |-> title]

\* The series of a figure drawn with color=: one per value of that column.
Series(figure) == {r[figure.color] : r \in figure.data}

\* A view that takes the years from y on.
YearView_since(frame, y) ==
  LET since(r) == r["Year"] # None /\ r["Year"][1] >= y
  IN SelectSeq(frame, since)

\* flight_data[flight_data['Year'] == int(year)]
YearView(frame, y) ==
  LET same_year(r) == r["Year"] = <<y>>
  IN SelectSeq(frame, same_year)

Raise(exc) ==
  [kind |-> "raise", exc |-> exc, value |-> <<>>, df |-> <<>>, ran |-> "none",
   tables |-> <<>>]

Return(value, view, aggregator, derived) ==
  [kind |-> "return", exc |-> "", value |-> value, df |-> view, ran |-> aggregator,
   tables |-> derived]

\* Lines 123-161: the branch of make_graph taken when chart == 'OPT1'.
PerformanceReport(view) ==
  LET t == performance(view)
      barchart ==
        [kind |-> "bar", data |-> t[1], x |-> "Month", y |-> "Flights",
         color |-> "CancellationCode", title |-> "Monthly Flight Cancellation"]
      linechart ==
        px_line(t[2], "AirTime", "Average monthly flight time (minutes) by airline")
      piechart ==
        [kind |-> "pie", data |-> t[3], values |-> "Flights",
         names |-> "Reporting_Airline", title |-> "% of flights by reporting airline"]
      mapchart ==
        [kind |-> "choropleth", data |-> t[4], locations |-> "OriginState",
         color |-> "Flights", title |-> "Number of flights from origin state"]
      treemap ==
        [kind |-> "treemap", data |-> t[5],
         path |-> <<"DestState", "Reporting_Airline">>, values |-> "Flights",
         color |-> "Flights", title |-> "Flight count by airline to destination state"]
  IN Return(<<Graph(treemap), Graph(piechart), Graph(mapchart), Graph(barchart),
              Graph(linechart)>>, view, "performance", t)

\* Lines 162-186: the else branch of make_graph.
DelayReport(view) ==
  LET t == delays(view)
      carriergraph ==
        px_line(t[1], "CarrierDelay", "Average carrrier delay time (minutes) by airline")
      weathergraph ==
        px_line(t[2], "WeatherDelay", "Average weather delay time (minutes) by airline")
      NASgraph ==
        px_line(t[3], "NASDelay", "Average NAS delay time (minutes) by airline")
      securitygraph ==
        px_line(t[4], "SecurityDelay", "Average security delay time (minutes) by airline")
      delaygraph ==
        px_line(t[5], "LateAircraftDelay",
                "Average late aircraft delay time (minutes) by airline")
  IN Return(<<Graph(carriergraph), Graph(weathergraph), Graph(NASgraph),
              Graph(securitygraph), Graph(delaygraph)>>, view, "delays", t)

\* make_graph that leaves plots alone once they are drawn.
make_graph_keeps_children(chart, year, children1, children2, c3, c4, c5) ==
  IF year = None THEN Raise("TypeError")
  ELSE
    LET view == YearView(flight_data, year[1])
    IN IF children1 # <<>>
       THEN Return(<<children1, children2, c3, c4, c5>>, view, "none", <<>>)
       ELSE IF chart = <<"OPT1">> THEN PerformanceReport(view) ELSE DelayReport(view)

\* The callback.  year is None or <<y>>; int(None) raises TypeError before
\* anything else runs.  The five children of the plots are accepted and
\* never read.
make_graph(chart, year, children1, children2, c3, c4, c5) ==
  IF year = None THEN Raise("TypeError")
  ELSE
    LET view == YearView(flight_data, year[1])
    IN IF chart = <<"OPT1">> THEN PerformanceReport(view) ELSE DelayReport(view)

\* ------------------------------------------------------------- the app

\* html.Div([], id='plot1') .. html.Div([], id='plot5')
EmptyPlots == [i \in 1..5 |-> <<>>]

NoCall == [kind |-> "none", exc |-> "", value |-> <<>>]

\* The values the dropdown input-type offers; None is the cleared dropdown.
ReportTypes == {<<"OPT1">>, <<"OPT2">>, None}

\* The values of the dropdown input-year (options built from years, line 85)
\* that are tried; None is the cleared dropdown.
YearChoices == {<<y>> : y \in {x \in years : x <= 2005 + MaxYearOffset}} \cup {None}

\* The import has read the table and built the layout; no callback ran.
Init ==
  /\ flight_data \in UNION {[1..n -> Rows] : n \in 0..MaxRows}
  /\ input_type = None
  /\ input_year = None
  /\ plot = EmptyPlots
  /\ result = NoCall
  /\ df = <<>>
  /\ ran = "none"
  /\ tables = <<>>
  /\ children = EmptyPlots

\* Dash runs make_graph with the values of both dropdowns and the children of
\* the five plots; a call that raises leaves the plots as they are.
Callback(chart, year, state) ==
  \E r \in {make_graph(chart, year, state[1], state[2], state[3], state[4], state[5])} :
     /\ input_type' = chart
     /\ children' = state
     /\ input_year' = year
     /\ result' = [kind |-> r.kind, exc |-> r.exc, value |-> r.value]
     /\ df' = r.df
     /\ ran' = r.ran
     /\ tables' = r.tables
     /\ plot' = IF r.kind = "return" THEN r.value ELSE state
     /\ UNCHANGED flight_data

\* The page is (re)loaded: the layout is fresh and the callback fires once.
PageLoad == Callback(None, None, EmptyPlots)

\* The user picks or clears a report type.
SelectType ==
  /\ result.kind # "none"
  /\ \E chart \in ReportTypes \ {input_type} : Callback(chart, input_year, plot)

\* The user picks or clears a year.
SelectYear ==
  /\ result.kind # "none"
  /\ \E year \in YearChoices \ {input_year} : Callback(input_type, year, plot)

Next == PageLoad \/ SelectType \/ SelectYear

Spec == Init /\ [][Next]_vars

\* ------------------------------------------------------------ properties

Called == result.kind # "none"

Returned == result.kind = "return"

\* The rows of the flight table of the selected year.
RowsOfYear == {i \in DOMAIN flight_data : flight_data[i]["Year"] = input_year}

Proj(r, by) == [c \in by |-> r[c]]

Present(r, by) == \A c \in by : r[c] # None

\* The group-by aggregates of the last call: their positions in tables, their
\* grouping columns and the column they reduce.
AggregateIds ==
  CASE ran = "performance" -> {1, 2, 4, 5}
    [] ran = "delays" -> 1..5
    [] OTHER -> {}

MeanIds ==
  CASE ran = "performance" -> {2}
    [] ran = "delays" -> 1..5
    [] OTHER -> {}

ByOf(i) ==
  IF ran = "performance"
  THEN CASE i = 1 -> {"Month", "CancellationCode"}
         [] i = 2 -> {"Month", "Reporting_Airline"}
         [] i = 4 -> {"OriginState"}
         [] OTHER -> {"DestState", "Reporting_Airline"}
  ELSE {"Month", "Reporting_Airline"}

ColOf(i) ==
  IF ran = "performance"
  THEN (IF i = 2 THEN "AirTime" ELSE "Flights")
  ELSE DelayColumns[i]

OneRowPerKey(table, by, keys) ==
  /\ {Proj(row, by) : row \in table} = keys
  /\ Cardinality(table) = Cardinality(keys)

FlightsOf(r) == IF r["Flights"] = None THEN 0 ELSE r["Flights"][1]

RECURSIVE TotalOfSet(_)
TotalOfSet(S) ==
  IF S = {} THEN 0
  ELSE LET r == CHOOSE x \in S : TRUE IN FlightsOf(r) + TotalOfSet(S \ {r})

RECURSIVE TotalOfRows(_, _)
TotalOfRows(frame, idx) ==
  IF idx = {} THEN 0
  ELSE LET i == CHOOSE x \in idx : TRUE
       IN FlightsOf(frame[i]) + TotalOfRows(frame, idx \ {i})

\* C1 (as claimed): a call with the year unset ends in an explicit
\* "no selection" state - it returns, without running an aggregator - and
\* raises nothing.
C1_YearUnsetIsNoSelection ==
  (Called /\ input_year = None) => (Returned /\ ran = "none")

\* C2 (as claimed): a call for a selectable year without rows ends in an
\* explicit empty-result state - it returns, without five charts built from
\* empty tables - and raises nothing.
C2_EmptyYearIsEmptyState ==
  (Called /\ input_year # None /\ RowsOfYear = {}) => (Returned /\ ran = "none")

\* C3 (as claimed): every group-by aggregate has exactly one row per
\* combination of grouping values occurring in the rows of the view, the
\* combinations with a missing value included.
C3_OneRowPerKeyMissingIncluded ==
  \A i \in AggregateIds :
    OneRowPerKey(tables[i], ByOf(i), {Proj(r, ByOf(i)) : r \in Range(df)})

\* C3 (amended): every group-by aggregate has exactly one row per combination
\* of grouping values occurring in the rows of the view whose grouping
\* columns all hold a value; a row with a missing grouping value is in no
\* group.
C3_OneRowPerPresentKey ==
  \A i \in AggregateIds :
    /\ OneRowPerKey(tables[i], ByOf(i),
                    {Proj(r, ByOf(i)) : r \in {q \in Range(df) : Present(q, ByOf(i))}})
    /\ \A row \in tables[i] : Present(row, ByOf(i))

\* A performance report whose cancellation table has a row while a flight of
\* the view has no CancellationCode.
C3_Witness ==
  /\ ran = "performance"
  /\ tables[1] # {}
  /\ \E r \in Range(df) : r["CancellationCode"] = None

\* C4 (as claimed): in a performance report the Flights of the treemap table
\* sum to the total of Flights over all rows of the flight table of that year.
C4_TreemapSumsToYearTotal ==
  (Returned /\ input_type = <<"OPT1">>) =>
    /\ result.value[1].figure.kind = "treemap"
    /\ TotalOfSet(result.value[1].figure.data) = TotalOfRows(flight_data, RowsOfYear)

\* C4 (amended): in a performance report the Flights of the treemap table sum
\* to the total of Flights over the rows of the flight table of that year
\* that have both a DestState and a Reporting_Airline.
C4_TreemapSumsToPlacedTotal ==
  (Returned /\ input_type = <<"OPT1">>) =>
    /\ result.value[1].figure.kind = "treemap"
    /\ TotalOfSet(result.value[1].figure.data) =
         TotalOfRows(flight_data,
                     {i \in RowsOfYear :
                        Present(flight_data[i], {"DestState", "Reporting_Airline"})})

\* A performance report over two rows of the year to the same destination by
\* the same airline, three flights in all.
C4_Witness ==
  /\ Returned
  /\ input_type = <<"OPT1">>
  /\ Len(df) = 2
  /\ Cardinality(result.value[1].figure.data) = 1
  /\ TotalOfSet(result.value[1].figure.data) = 3

\* C5: the view of a call with a year holds only rows of that year, and every
\* row of the flight table of that year as often as the table holds it.
C5_ViewIsTheYear ==
  (Called /\ input_year # None) =>
    /\ result.kind = "return"
    /\ \A i \in DOMAIN df : df[i]["Year"] = input_year
    /\ \A r \in Range(flight_data) :
         r["Year"] = input_year =>
           Cardinality({i \in DOMAIN df : df[i] = r}) =
             Cardinality({i \in DOMAIN flight_data : flight_data[i] = r})

\* A call whose view keeps one row of the table and leaves another out.
C5_Witness ==
  /\ Called
  /\ input_year # None
  /\ Len(df) = 1
  /\ Len(flight_data) = 2
  /\ \E r \in Range(flight_data) : r["Year"] # None /\ r["Year"] # input_year

\* The values a column holds in the rows of a group of the view.
ValuesOf(row, by, col) ==
  {df[i][col][1] :
     i \in {j \in DOMAIN df : Proj(df[j], by) = Proj(row, by) /\ df[j][col] # None}}

\* s / n lies between the least and the greatest of vals.
MeanWithin(mean, vals) ==
  /\ \E lo \in vals : (\A v \in vals : lo <= v) /\ lo * mean[2] <= mean[1]
  /\ \E hi \in vals : (\A v \in vals : v <= hi) /\ mean[1] <= hi * mean[2]

\* C6 (as claimed): every mean of every mean-based aggregate lies between the
\* minimum and the maximum of its column over the rows of its group, also in
\* a group whose rows all miss the value.
C6_MeanWithinRange ==
  \A i \in MeanIds : \A row \in tables[i] :
    /\ row[ColOf(i)] # None
    /\ MeanWithin(row[ColOf(i)], ValuesOf(row, ByOf(i), ColOf(i)))

\* C6 (amended): in a group with a value in some row the mean lies between
\* the minimum and the maximum of the values present; in a group whose rows
\* all miss the value the mean is missing.
C6_MeanWithinRangeOfPresent ==
  \A i \in MeanIds : \A row \in tables[i] :
    IF ValuesOf(row, ByOf(i), ColOf(i)) = {}
    THEN row[ColOf(i)] = None
    ELSE /\ row[ColOf(i)] # None
         /\ row[ColOf(i)][2] > 0
         /\ MeanWithin(row[ColOf(i)], ValuesOf(row, ByOf(i), ColOf(i)))

\* A group whose two rows differ in the value.
C6_Witness ==
  \E i \in MeanIds : \E row \in tables[i] :
    /\ Cardinality(ValuesOf(row, ByOf(i), ColOf(i))) = 2
    /\ row[ColOf(i)] # None

\* The five charts of a delay report: line charts of the five delay columns,
\* in the order carrier, weather, NAS, security, late aircraft.
FiveDelayCharts ==
  /\ Len(result.value) = 5
  /\ \A i \in 1..5 :
       /\ result.value[i].type = "Graph"
       /\ result.value[i].figure.kind = "line"
       /\ result.value[i].figure.y = DelayColumns[i]

\* C7 (as claimed): a delay report for a year is five line charts, and the
\* series of each are the airlines with at least one row of that year.
C7_SeriesAreTheAirlines ==
  (Called /\ input_type = <<"OPT2">> /\ input_year # None) =>
    /\ Returned
    /\ FiveDelayCharts
    /\ \A i \in 1..5 :
         Series(result.value[i].figure) =
           {flight_data[j]["Reporting_Airline"] : j \in RowsOfYear} \ {None}

\* C7 (amended): a delay report for a year is five line charts, and the
\* series of each are the airlines with at least one row of that year that
\* has a Month.
C7_SeriesAreTheAirlinesWithMonth ==
  (Called /\ input_type = <<"OPT2">> /\ input_year # None) =>
    /\ Returned
    /\ FiveDelayCharts
    /\ \A i \in 1..5 :
         Series(result.value[i].figure) =
           {flight_data[j]["Reporting_Airline"] :
              j \in {k \in RowsOfYear : flight_data[k]["Month"] # None}} \ {None}

\* A delay report with two airlines, one of them without a late-aircraft
\* delay in any row.
C7_Witness ==
  /\ Returned
  /\ input_type = <<"OPT2">>
  /\ Cardinality(Series(result.value[5].figure)) = 2
  /\ \E row \in result.value[5].figure.data : row["LateAircraftDelay"] = None

\* C8 (as claimed): a call with a year runs the performance aggregator and
\* returns the performance charts exactly when the report type is OPT1, the
\* delay aggregator and the delay charts exactly when it is OPT2, and
\* neither when the report type is unset.
C8_AggregatorMatchesSelector ==
  (Called /\ input_year # None) =>
    /\ ran = "performance" <=> input_type = <<"OPT1">>
    /\ ran = "delays" <=> input_type = <<"OPT2">>
    /\ Returned /\ ran = "delays" => FiveDelayCharts
    /\ Returned /\ ran = "performance" => result.value[1].figure.kind = "treemap"

\* What a call with these two values returns on a freshly loaded page.
FreshOutcome(chart, year) ==
  LET r == make_graph(chart, year, <<>>, <<>>, <<>>, <<>>, <<>>)
  IN [kind |-> r.kind, exc |-> r.exc, value |-> r.value]

\* C9: no step changes the flight table, and whatever calls came before and
\* whatever children a call was given, it ends as the call with the same
\* report type and year ends on a freshly loaded page.
C9_OutputsDependOnInputsOnly ==
  /\ [][flight_data' = flight_data]_vars
  /\ [](Called => result = FreshOutcome(input_type, input_year))

\* A call that was given drawn plots, other than the ones it returned.
C9_Witness ==
  /\ Returned
  /\ children # EmptyPlots
  /\ children # result.value
  /\ flight_data # <<>>

\* A diverted landing: the count is there and is not 0.
NonzeroCount(r) == r["DivAirportLandings"] # None /\ r["DivAirportLandings"][1] # 0

\* C10 (as claimed): the diversion table of a performance report is the rows
\* of the view with a nonzero DivAirportLandings count, unchanged; rows with
\* 0 and rows with a missing count are left out.
C10_DiversionsAreNonzeroCounts ==
  ran = "performance" => tables[3] = SelectSeq(df, NonzeroCount)

====
